---- MODULE Spec2Model ----
(***************************************************************************)
(* Donation reconciliation pipeline of the donation server.                *)
(*                                                                         *)
(* The repository holds two revisions of the same express server:          *)
(* src/server.js and src/unnamed/part_000.  They share the handlers        *)
(* POST /api/create-order, /api/confirm-payment, /api/mta/pending and      *)
(* /api/mta/mark-done; they differ in the token gate of the two /api/mta   *)
(* handlers and in the rate lookup of create-order.  The variable `build'  *)
(* says which revision is the running one.                                 *)
(*                                                                         *)
(* Every handler is an async function: each `await' on the store or on     *)
(* the payment gateway is a point where other requests run.  A call is a   *)
(* record with a program counter `pc'; one action is one run of the        *)
(* handler from one await to the next.                                     *)
(*                                                                         *)
(* Amounts are kept in hundredths of a GEL (amount_gel = 10.00 is 1000).   *)
(***************************************************************************)
EXTENDS Integers, Sequences, FiniteSets, TLC

\* ------------------------------------------------------------------ bounds
\* Number of confirm-payment calls of a run.
MaxConfirms == 2
\* Number of mark-done calls of a run.
MaxSettles == 2
\* Number of create-order calls of a run.
MaxCreates == 3
\* Largest donations table a pending request is answered on.
MaxRows == 52
\* Largest amount, in hundredths, the rewards are computed for.
MaxAmount == 420

\* --------------------------------------------------------- configuration
\* parseFloat(process.env.COIN_RATE) || 1
COIN_RATE == 1
\* parseFloat(process.env.MONEY_RATE) || 1000000
MONEY_RATE == 1000000
\* LIMIT of the pending query
PendingLimit == 50

\* A JavaScript value that is undefined (a field absent from the request
\* body, an environment variable that is not set).
Undefined == "undefined"

\* The revisions of the server.
Builds == {"server.js", "part_000"}

\* process.env.MTA_TOKEN: set, or not set.
TokenConfigs == {"secret", Undefined}

\* Request tokens: the configured one, or none.
Tokens == {"secret", Undefined}

\* ----------------------------------------------------------------- inputs
\* Rows of the users table (provisioned externally, never created or
\* deleted by the server).
Accounts == {123456, 654321}

\* aid of a request: 0 is a falsy aid (absent or 0), 999999 is well formed
\* and not in the users table.
Aids == {0, 123456, 999999}

\* type of a request: "gems" is truthy and not a reward kind.
Types == {"coins", "money", "gems"}

\* amount of a request in hundredths: 0 is a falsy amount (absent or 0),
\* -500 is -5 GEL, 50 is 0.50 GEL, 1000 is 10 GEL.
Amounts == {-500, 0, 50, 1000}

\* orderId of a request.
OrderIds == {"O1", "O2"}

\* What the gateway's capture can do: report COMPLETED, report another
\* status, or throw (network, provider error).
CaptureResults == {"COMPLETED", "PENDING", "throws"}

\* amount of a create-order request in hundredths: 0 is falsy, 99 is 0.99,
\* 100 is 1.00, 1000 is 10.00, 100000 is 1000.00, 100001 is 1000.01.
CreateAmounts == {0, 99, 100, 1000, 100000, 100001}

\* What the gateway's order creation can do: issue an order, or throw.
CreateResults == {"CREATED", "throws"}

CreateCalls == 1..MaxCreates
ConfirmCalls == 1..MaxConfirms
SettleCalls == 1..MaxSettles

\* donationId of a mark-done request: 0 is falsy (absent or 0); the largest
\* value is an id no row has.
DonationIds == 0..(MaxConfirms + 1)

\* -------------------------------------------------------------- responses
MissingFields == "400 Missing required fields"
DuplicateOrder == "400 Order already processed"
AccountNotFound == "404 AID not found"
PaymentNotCompleted == "400 Payment not completed"
\* The catch block of confirm-payment: a capture that throws
\* (PaymentGatewayError), a store statement that throws (StoreFailure) and
\* calculateRewards throwing (InvalidRewardKind) all end here.
ConfirmFailed == "500 Failed to process donation"
ConfirmOk == "200 Donation processed successfully"
CreateMissingFields == "400 Missing required fields: aid, type, amount"
InvalidType == "400 Type must be coins or money"
AmountOutOfRange == "400 Amount must be between 1-1000 GEL"
\* The catch block of create-order.
CreateFailed == "500 Failed to create order"
CreateOk == "200 order created"
Unauthorized == "401 Unauthorized"
MissingDonationId == "400 Missing donationId"
NotFound == "404 Donation not found"
DatabaseError == "500 Database error"
SettleOk == "200 success"
NoResponse == "none"

VARIABLES
  build,      \* the revision that runs
  MTA_TOKEN,  \* process.env.MTA_TOKEN
  users,      \* users table: AID -> [coins, money]
  donations,  \* donations table, a row's id is its index
  create,     \* the create-order calls
  gateway,    \* the orders created at the payment gateway, oldest first
  confirm,    \* the confirm-payment calls
  settle,     \* the mark-done calls
  credited    \* history: per donation id, the UPDATE users statements run from it

vars ==
  <<build, MTA_TOKEN, users, donations, create, gateway, confirm, settle, credited>>

\* ---------------------------------------------------------------- helpers
\* The amounts from -10.00 to 10.00 whose product with 1000000 is not exact
\* in IEEE-754 doubles: the double nearest to the amount times the rate,
\* rounded to a double, lies just below the whole number (2.01 * 1000000
\* is 2009999.9999999998, -4.03 * 1000000 is -4030000.0000000005).  Every
\* other product of such an amount with a rate of 1 or 1000000 is the
\* decimal product itself, and so is the product of a whole amount.
BelowWhole ==
  {-838, -831, -830, -822, -821, -814, -813, -806, -805,
   -419, -415, -411, -407, -403,
   201, 203, 205, 207, 209, 402, 406, 410, 414, 418,
   803, 804, 811, 812, 819, 820, 828, 829, 836, 837}

\* amountGEL * rate, in hundredths, for an amount in hundredths and a whole
\* rate.  A product that lies just below a whole number is given as the
\* hundredth below it.
Times(amount, rate) ==
  amount * rate - (IF rate = MONEY_RATE /\ amount \in BelowWhole THEN 1 ELSE 0)

\* Math.ceil in the place of Math.floor.
CeilTimes(amount, rate) == 0 - ((0 - Times(amount, rate)) \div 100)

\* Math.floor(amountGEL * rate).  The whole part and the fraction of the
\* amount are multiplied apart, floor((100 q + m) r / 100) = q r +
\* floor(m r / 100), to keep 1000.00 * 1000000 within the integers; a
\* product just below the whole number floors to the number below.
FloorTimes(amount, rate) ==
  (amount \div 100) * rate + ((amount % 100) * rate) \div 100
    - (IF rate = MONEY_RATE /\ amount \in BelowWhole THEN 1 ELSE 0)

\* calculateRewards(type, amountGEL); `throws' is the Error('Invalid type').
calculateRewards(type, amountGEL) ==
  IF type = "coins"
    THEN [throws |-> FALSE, coins |-> FloorTimes(amountGEL, COIN_RATE), money |-> 0]
  ELSE IF type = "money"
    THEN [throws |-> FALSE, coins |-> 0, money |-> FloorTimes(amountGEL, MONEY_RATE)]
  ELSE [throws |-> TRUE, coins |-> 0, money |-> 0]

\* if (!aid || !type || !amount || !orderId)
MissingRequired(aid, type, amount, orderId) ==
  aid = 0 \/ type = "" \/ amount = 0 \/ orderId = ""

\* The duplicate check left out.
OrderRecordedSkipped(rows, orderId) == FALSE

\* SELECT id FROM donations WHERE order_id = ?  ... existing.length > 0
OrderRecorded(rows, orderId) ==
  \E i \in 1..Len(rows) : rows[i].order_id = orderId

\* The account check left out.
AccountMissingSkipped(table, aid) == FALSE

\* SELECT AID FROM users WHERE AID = ?  ... accounts.length === 0
AccountMissing(table, aid) == aid \notin DOMAIN table

\* The status check left out: whatever the capture returns counts.
NotCompletedSkipped(status) == FALSE

\* capture.result.status !== 'COMPLETED'
NotCompleted(status) == status # "COMPLETED"

\* A table without the uniqueness constraint.
UniqueKeyAbsent(rows, orderId) == FALSE

\* The store's uniqueness constraint on donations.order_id: the INSERT of a
\* second row with a recorded order_id fails (ER_DUP_ENTRY).  The schema is
\* not among the sources; the constraint is the one the specification names.
UniqueKeyViolated(rows, orderId) ==
  \E i \in 1..Len(rows) : rows[i].order_id = orderId

\* INSERT INTO donations (aid, type, amount_gel, coins_reward, money_reward,
\* order_id, processed) VALUES (?, ?, ?, ?, ?, ?, FALSE)
InsertDonation(rows, aid, type, amountGEL, rewards, orderId) ==
  Append(rows, [aid |-> aid, type |-> type, amount_gel |-> amountGEL,
                coins_reward |-> rewards.coins, money_reward |-> rewards.money,
                order_id |-> orderId, processed |-> FALSE])

\* The INSERT run outside a transaction: the row stays whatever comes after.
CommittedAnyway(rows, inserted, storeOk) == inserted

\* conn.commit() makes the inserted row part of the table; when the INSERT
\* or the commit throws, the catch block's conn.rollback() leaves the
\* table as it was.
Committed(rows, inserted, storeOk) == IF storeOk THEN inserted ELSE rows

\* The token gate of part_000: token !== process.env.MTA_TOKEN
TokenRejectedPart000(token, configured) == token # configured

\* The token gate of server.js: !token || token !== process.env.MTA_TOKEN
TokenRejectedServer(token, configured) ==
  token = Undefined \/ token # configured

TokenRejected(token) ==
  IF build = "server.js" THEN TokenRejectedServer(token, MTA_TOKEN)
                         ELSE TokenRejectedPart000(token, MTA_TOKEN)

\* created_at of the row with this id.  The INSERT names no created_at: the
\* column is filled by the table's default, the time of the INSERT, and the
\* table definition is not among the sources.  Rows are inserted one after
\* the other, so a row's position in the table is its creation time.
created_at(id) == id

\* The pending query with ORDER BY created_at DESC: the newest rows, and
\* the newest first.
SelectNewest(rows) ==
  LET ids == [i \in 1..Len(rows) |-> Len(rows) + 1 - i]
      open == SelectSeq(ids, LAMBDA i : ~rows[i].processed)
  IN  IF Len(open) <= PendingLimit THEN open ELSE SubSeq(open, 1, PendingLimit)

\* The pending query with the LIMIT applied before the WHERE: the
\* unprocessed rows among the 50 oldest rows.
SelectOldestRows(rows) ==
  LET ids == [i \in 1..Len(rows) |-> i]
      first == IF Len(ids) <= PendingLimit THEN ids ELSE SubSeq(ids, 1, PendingLimit)
  IN  SelectSeq(first, LAMBDA i : ~rows[i].processed)

\* SELECT id, ... FROM donations WHERE processed = FALSE
\* ORDER BY created_at ASC LIMIT 50: the ids, oldest first.
SelectPending(rows) ==
  LET ids == [i \in 1..Len(rows) |-> i]
      open == SelectSeq(ids, LAMBDA i : ~rows[i].processed)
  IN  IF Len(open) <= PendingLimit THEN open ELSE SubSeq(open, 1, PendingLimit)

\* The SELECT without AND processed = FALSE.
RowAbsent(rows, donationId) == donationId \notin 1..Len(rows)

\* SELECT aid, coins_reward, money_reward FROM donations
\* WHERE id = ? AND processed = FALSE ... donations.length === 0
NoUnprocessedRow(rows, donationId) ==
  ~(donationId \in 1..Len(rows) /\ ~rows[donationId].processed)

\* The UPDATE users without its WHERE clause.
CreditEveryAccount(table, aid, coins, money) ==
  [a \in DOMAIN table |-> [coins |-> table[a].coins + coins,
                           money |-> table[a].money + money]]

\* UPDATE users SET coins = coins + ?, money = money + ? WHERE AID = ?
CreditAccount(table, aid, coins, money) ==
  [a \in DOMAIN table |->
     IF a = aid THEN [coins |-> table[a].coins + coins,
                      money |-> table[a].money + money]
                ELSE table[a]]

\* The UPDATE donations flipping the flag: SET processed = NOT processed.
ToggleProcessed(rows, donationId) ==
  [i \in 1..Len(rows) |->
     IF i = donationId THEN [rows[i] EXCEPT !.processed = ~@] ELSE rows[i]]

\* UPDATE donations SET processed = TRUE, processed_at = NOW() WHERE id = ?
MarkProcessed(rows, donationId) ==
  [i \in 1..Len(rows) |->
     IF i = donationId THEN [rows[i] EXCEPT !.processed = TRUE] ELSE rows[i]]

\* ------------------------------------------------------------------ calls
NoRewards == [throws |-> FALSE, coins |-> 0, money |-> 0]

IdleCreate ==
  [pc |-> "idle", aid |-> 0, type |-> "", amount |-> 0, rewards |-> NoRewards,
   orderId |-> "", resp |-> NoResponse]

IdleConfirm ==
  [pc |-> "idle", aid |-> 0, type |-> "", amount |-> 0, orderId |-> "",
   capture |-> "none", resp |-> NoResponse]

NoDonation == [id |-> 0, aid |-> 0, coins_reward |-> 0, money_reward |-> 0]

IdleSettle ==
  [pc |-> "idle", donationId |-> 0, donation |-> NoDonation, resp |-> NoResponse]

Init ==
  /\ build \in Builds
  /\ MTA_TOKEN \in TokenConfigs
  /\ users = [a \in Accounts |-> [coins |-> 0, money |-> 0]]
  /\ donations = <<>>
  /\ create = [k \in CreateCalls |-> IdleCreate]
  /\ gateway = <<>>
  /\ confirm = [c \in ConfirmCalls |-> IdleConfirm]
  /\ settle = [s \in SettleCalls |-> IdleSettle]
  /\ credited = [d \in 1..MaxConfirms |-> 0]

\* ------------------------------------------------ POST /api/create-order
\* The range check with the bounds left out of the range.
OutOfRangeAtBounds(amountGEL) == amountGEL <= 100 \/ amountGEL >= 100000

\* isNaN(amountGEL) || amountGEL < 1 || amountGEL > 1000, for an amount in
\* hundredths; the amounts of the model are numbers.
OutOfRange(amountGEL) == amountGEL < 100 \/ amountGEL > 100000

\* What the handler answers before it computes the rewards: the
\* required-fields check, the type check, the range check and the account
\* check, in the handler's order; "order" when all four pass.
CreateChecks(table, aid, type, amount) ==
  IF aid = 0 \/ type = "" \/ amount = 0 THEN CreateMissingFields
  ELSE IF type # "coins" /\ type # "money" THEN InvalidType
  ELSE IF OutOfRange(amount) THEN AmountOutOfRange
  ELSE IF AccountMissing(table, aid) THEN AccountNotFound
  ELSE "order"

\* const gelToUsdRate = await getCurrentGelToUsdRate() in server.js: no
\* such function is defined or imported, the call throws a ReferenceError
\* into the catch block.  part_000 has no such line.
RateLookupThrows == build = "server.js"

\* The order the gateway issues next.
NextOrderId == "O" \o ToString(Len(gateway) + 1)

\* From the request to the gateway call: the checks, the SELECT on users
\* (storeOk = FALSE is a SELECT that throws), calculateRewards and the
\* rate lookup.  A call that was turned away keeps its response only.
CreateStart(k, aid, type, amount, storeOk) ==
  /\ create[k].pc = "idle"
  /\ IF k = 1 THEN TRUE ELSE create[k - 1].pc # "idle"
  /\ LET r == CreateChecks(users, aid, type, amount)
         passed == [IdleCreate EXCEPT !.aid = aid, !.type = type, !.amount = amount,
                                      !.rewards = calculateRewards(type, amount)]
     IN  create' = [create EXCEPT ![k] =
           IF r \in {CreateMissingFields, InvalidType, AmountOutOfRange}
             THEN [IdleCreate EXCEPT !.pc = "done", !.resp = r]
           ELSE IF ~storeOk
             THEN [IdleCreate EXCEPT !.pc = "done", !.resp = CreateFailed]
           ELSE IF r = AccountNotFound
             THEN [IdleCreate EXCEPT !.pc = "done", !.resp = r]
           ELSE IF RateLookupThrows
             THEN [passed EXCEPT !.pc = "done", !.resp = CreateFailed]
           ELSE [passed EXCEPT !.pc = "order"]]
  /\ UNCHANGED <<build, MTA_TOKEN, users, donations, gateway, confirm, settle,
                 credited>>

\* await payPalClient().execute(new OrdersCreateRequest()) returns the
\* order the gateway created, with custom_id aid:type:amount, or throws.
CreateOrder(k, result) ==
  /\ create[k].pc = "order"
  /\ IF result = "CREATED"
       THEN /\ gateway' = Append(gateway,
                   [id |-> NextOrderId, aid |-> create[k].aid,
                    type |-> create[k].type, amount |-> create[k].amount])
            /\ create' = [create EXCEPT ![k].pc = "done",
                                        ![k].orderId = NextOrderId,
                                        ![k].resp = CreateOk]
       ELSE /\ gateway' = gateway
            /\ create' = [create EXCEPT ![k] =
                 [IdleCreate EXCEPT !.pc = "done", !.resp = CreateFailed]]
  /\ UNCHANGED <<build, MTA_TOKEN, users, donations, confirm, settle, credited>>

\* --------------------------------------------- POST /api/confirm-payment
\* What the handler answers before it reaches the capture: the
\* required-fields check, the duplicate check and the account check, in
\* the handler's order; "capture" when all three pass.
ConfirmChecks(rows, table, aid, type, amount, orderId) ==
  IF MissingRequired(aid, type, amount, orderId) THEN MissingFields
  ELSE IF OrderRecorded(rows, orderId) THEN DuplicateOrder
  ELSE IF AccountMissing(table, aid) THEN AccountNotFound
  ELSE "capture"

\* From the request to the SELECT on users: the required-fields check,
\* beginTransaction and the duplicate check on the rows committed when the
\* SELECT on donations runs.  A call that has answered keeps its response
\* only.
ConfirmStart(c, aid, type, amount, orderId) ==
  /\ confirm[c].pc = "idle"
  /\ IF c = 1 THEN TRUE ELSE confirm[c - 1].pc # "idle"
  /\ LET r == ConfirmChecks(donations, users, aid, type, amount, orderId)
     IN  confirm' = [confirm EXCEPT ![c] =
           IF r \in {MissingFields, DuplicateOrder}
             THEN [IdleConfirm EXCEPT !.pc = "done", !.resp = r]
             ELSE [IdleConfirm EXCEPT !.pc = "account", !.aid = aid, !.type = type,
                                      !.amount = amount, !.orderId = orderId]]
  /\ UNCHANGED <<build, MTA_TOKEN, create, gateway, users, donations, settle, credited>>

\* The SELECT on users returns: the account check, and with an account
\* the capture request is sent to the gateway before the handler yields
\* again.  Rows committed since the duplicate check are not looked at.
ConfirmAccount(c) ==
  /\ confirm[c].pc = "account"
  /\ confirm' = [confirm EXCEPT ![c] =
       IF AccountMissing(users, confirm[c].aid)
         THEN [IdleConfirm EXCEPT !.pc = "done", !.resp = AccountNotFound]
         ELSE [@ EXCEPT !.pc = "capture"]]
  /\ UNCHANGED <<build, MTA_TOKEN, create, gateway, users, donations, settle, credited>>

\* await payPalClient().execute(new OrdersCaptureRequest(orderId)) returns
\* or throws; the gateway is a black box.
ConfirmCapture(c, result) ==
  /\ confirm[c].pc = "capture"
  /\ confirm' = [confirm EXCEPT ![c] =
       IF result = "throws"
         THEN [IdleConfirm EXCEPT !.pc = "done", !.capture = result,
                                  !.resp = ConfirmFailed]
       ELSE IF NotCompleted(result)
         THEN [IdleConfirm EXCEPT !.pc = "done", !.capture = result,
                                  !.resp = PaymentNotCompleted]
       ELSE [@ EXCEPT !.pc = "insert", !.capture = result]]
  /\ UNCHANGED <<build, MTA_TOKEN, create, gateway, users, donations, settle, credited>>

\* calculateRewards, INSERT and commit.  The inserted row is invisible to
\* every other transaction until the commit, so INSERT and commit are one
\* step; storeOk = FALSE is an INSERT or a commit that throws.
ConfirmInsert(c, storeOk) ==
  /\ confirm[c].pc = "insert"
  /\ LET call == confirm[c]
         rewards == calculateRewards(call.type, call.amount)
         inserts == /\ ~rewards.throws
                    /\ ~UniqueKeyViolated(donations, call.orderId)
         written == inserts /\ storeOk
     IN  /\ donations' =
              IF inserts
                THEN Committed(donations,
                               InsertDonation(donations, call.aid, call.type,
                                              call.amount, rewards, call.orderId),
                               storeOk)
                ELSE donations
         /\ confirm' = [confirm EXCEPT ![c] =
              [IdleConfirm EXCEPT !.pc = "done", !.capture = call.capture,
                 !.resp = IF written THEN ConfirmOk ELSE ConfirmFailed]]
  /\ UNCHANGED <<build, MTA_TOKEN, create, gateway, users, settle, credited>>

\* ------------------------------------------------- POST /api/mta/pending
\* The response to a request with this token: 401 and no rows, or the
\* pending rows.
PendingResponse(token) ==
  IF TokenRejected(token)
    THEN [status |-> Unauthorized, donations |-> <<>>]
    ELSE [status |-> SettleOk, donations |-> SelectPending(donations)]

\* The handler reads and answers; it changes nothing in the store.
Pending(token) ==
  /\ PendingResponse(token).status \in {Unauthorized, SettleOk}
  /\ UNCHANGED vars

\* ----------------------------------------------- POST /api/mta/mark-done
\* What the handler answers before its first UPDATE: the token gate, the
\* donationId check and the SELECT of the unprocessed row; "credit" when
\* the row is there.
SettleChecks(rows, token, donationId) ==
  IF TokenRejected(token) THEN Unauthorized
  ELSE IF donationId = 0 THEN MissingDonationId
  ELSE IF NoUnprocessedRow(rows, donationId) THEN NotFound
  ELSE "credit"

\* From the request to the first UPDATE; the handler keeps the selected
\* row's values in `donation'.
SettleStart(s, token, donationId) ==
  /\ settle[s].pc = "idle"
  /\ IF s = 1 THEN TRUE ELSE settle[s - 1].pc # "idle"
  /\ LET r == SettleChecks(donations, token, donationId)
     IN  settle' = [settle EXCEPT ![s] =
           IF r = "credit"
             THEN [IdleSettle EXCEPT
                     !.pc = "credit", !.donationId = donationId,
                     !.donation =
                        [id |-> donationId,
                         aid |-> donations[donationId].aid,
                         coins_reward |-> donations[donationId].coins_reward,
                         money_reward |-> donations[donationId].money_reward]]
             ELSE [IdleSettle EXCEPT !.pc = "done", !.donationId = donationId,
                                     !.resp = r]]
  /\ UNCHANGED <<build, MTA_TOKEN, create, gateway, users, donations, confirm, credited>>

\* await pool.execute('UPDATE users ...'): its own statement on the pool,
\* committed when it returns; storeOk = FALSE is a statement that throws.
SettleCredit(s, storeOk) ==
  /\ settle[s].pc = "credit"
  /\ LET d == settle[s].donation
     IN  IF storeOk
           THEN /\ users' = CreditAccount(users, d.aid, d.coins_reward, d.money_reward)
                /\ credited' = [credited EXCEPT ![d.id] = @ + 1]
                /\ settle' = [settle EXCEPT ![s].pc = "mark"]
           ELSE /\ settle' = [settle EXCEPT ![s] =
                     [IdleSettle EXCEPT !.pc = "done", !.donationId = d.id,
                                        !.resp = DatabaseError]]
                /\ UNCHANGED <<users, credited>>
  /\ UNCHANGED <<build, MTA_TOKEN, create, gateway, donations, confirm>>

\* await pool.execute('UPDATE donations SET processed = TRUE ...') and the
\* response.
SettleMark(s, storeOk) ==
  /\ settle[s].pc = "mark"
  /\ donations' = IF storeOk THEN MarkProcessed(donations, settle[s].donationId)
                             ELSE donations
  /\ settle' = [settle EXCEPT ![s] =
       [IdleSettle EXCEPT !.pc = "done", !.donationId = settle[s].donationId,
                          !.resp = IF storeOk THEN SettleOk ELSE DatabaseError]]
  /\ UNCHANGED <<build, MTA_TOKEN, create, gateway, users, confirm, credited>>

NextCreate ==
  \/ \E k \in CreateCalls, aid \in Aids, type \in Types,
        amount \in CreateAmounts, storeOk \in BOOLEAN :
       CreateStart(k, aid, type, amount, storeOk)
  \/ \E k \in CreateCalls, result \in CreateResults : CreateOrder(k, result)

NextConfirm ==
  \/ \E c \in ConfirmCalls, aid \in Aids, type \in Types,
        amount \in Amounts, orderId \in OrderIds :
       ConfirmStart(c, aid, type, amount, orderId)
  \/ \E c \in ConfirmCalls : ConfirmAccount(c)
  \/ \E c \in ConfirmCalls, result \in CaptureResults : ConfirmCapture(c, result)
  \/ \E c \in ConfirmCalls, storeOk \in BOOLEAN : ConfirmInsert(c, storeOk)

NextSettle ==
  \/ \E s \in SettleCalls, token \in Tokens, donationId \in DonationIds :
       SettleStart(s, token, donationId)
  \/ \E s \in SettleCalls, storeOk \in BOOLEAN : SettleCredit(s, storeOk)
  \/ \E s \in SettleCalls, storeOk \in BOOLEAN : SettleMark(s, storeOk)

NextPending == \E token \in Tokens : Pending(token)

Next == NextConfirm \/ NextPending \/ NextSettle

\* The whole server: confirm, pending and mark-done calls in any interleaving.
Spec == Init /\ [][Next]_vars

\* The create-order calls alone.
SpecCreate == Init /\ [][NextCreate]_vars

\* The confirm-payment calls alone, racing each other on an empty table.
SpecConfirm == Init /\ [][NextConfirm]_vars

\* The rows a confirm call can record: any account of the users table, a
\* reward kind, an amount that passes the required-fields check and an
\* order id, with the rewards calculateRewards gives.
RecordedRows ==
  { InsertDonation(<<>>, aid, type, amount,
                   calculateRewards(type, amount), orderId)[1] :
      aid \in Accounts,
      type \in {t \in Types : ~calculateRewards(t, 100).throws},
      amount \in Amounts \ {0},
      orderId \in OrderIds }

\* The tables confirm calls can leave: at most one row per order id.
RecordedTables ==
  {<<>>} \cup {<<r>> : r \in RecordedRows}
         \cup {t \in {<<r1, r2>> : r1 \in RecordedRows, r2 \in RecordedRows} :
                 t[1].order_id # t[2].order_id}

InitSettle ==
  /\ build \in Builds
  /\ MTA_TOKEN \in TokenConfigs
  /\ users = [a \in Accounts |-> [coins |-> 0, money |-> 0]]
  /\ donations \in RecordedTables
  /\ create = [k \in CreateCalls |-> IdleCreate]
  /\ gateway = <<>>
  /\ confirm = [c \in ConfirmCalls |-> IdleConfirm]
  /\ settle = [s \in SettleCalls |-> IdleSettle]
  /\ credited = [d \in 1..MaxConfirms |-> 0]

\* The consumer's calls alone, pending and mark-done, on a table of
\* recorded donations.
SpecSettle == InitSettle /\ [][NextPending \/ NextSettle]_vars

\* A table of n recorded donations of one account, of which the rows in
\* `settled' have been settled.
TableOf(n, settled) ==
  [i \in 1..n |->
     [InsertDonation(<<>>, 123456, "coins", 1000,
                     calculateRewards("coins", 1000), "O" \o ToString(i))[1]
        EXCEPT !.processed = (i \in settled)]]

\* The server after n donations were recorded and at most two of them were
\* settled, any one and the newest one: the account holds the rewards of
\* the settled rows.
InitPending ==
  /\ build \in Builds
  /\ MTA_TOKEN \in TokenConfigs
  /\ \E n \in 0..MaxRows : \E a \in 0..n, b \in {0, n} :
       LET settled == {a, b} \ {0}
           reward == calculateRewards("coins", 1000).coins
       IN  /\ donations = TableOf(n, settled)
           /\ users = [acc \in Accounts |->
                         IF acc = 123456
                           THEN [coins |-> reward * Cardinality(settled), money |-> 0]
                           ELSE [coins |-> 0, money |-> 0]]
           /\ credited = [d \in 1..MaxConfirms |-> IF d \in settled THEN 1 ELSE 0]
  /\ create = [k \in CreateCalls |-> IdleCreate]
  /\ gateway = <<>>
  /\ confirm = [c \in ConfirmCalls |-> IdleConfirm]
  /\ settle = [s \in SettleCalls |-> IdleSettle]

\* Pending requests on tables up to MaxRows rows, more than the LIMIT.
SpecPending == InitPending /\ [][NextPending]_vars

\* The amounts the rewards are computed for: every truthy amount from
\* -MaxAmount to MaxAmount hundredths.
RewardAmounts == ((0 - MaxAmount)..MaxAmount) \ {0}

\* Two confirm calls for two orders, with the same type and amount, that
\* have passed their checks and their capture: each is about to compute
\* its rewards and insert.
InitRewards ==
  /\ build \in Builds
  /\ MTA_TOKEN \in TokenConfigs
  /\ users = [a \in Accounts |-> [coins |-> 0, money |-> 0]]
  /\ donations = <<>>
  /\ create = [k \in CreateCalls |-> IdleCreate]
  /\ gateway = <<>>
  /\ \E type \in Types, amount \in RewardAmounts :
       confirm = [c \in ConfirmCalls |->
                    [IdleConfirm EXCEPT !.pc = "insert", !.aid = 123456,
                       !.type = type, !.amount = amount,
                       !.orderId = IF c = 1 THEN "O1" ELSE "O2",
                       !.capture = "COMPLETED"]]
  /\ settle = [s \in SettleCalls |-> IdleSettle]
  /\ credited = [d \in 1..MaxConfirms |-> 0]

NextInsert == \E c \in ConfirmCalls, storeOk \in BOOLEAN : ConfirmInsert(c, storeOk)

\* calculateRewards as the confirm handler runs it, over a range of amounts.
SpecRewards == InitRewards /\ [][NextInsert]_vars

\* The confirm-payment calls with a store that always answers and a
\* gateway that may never answer: the handler sets no timer on the
\* capture, so nothing but the gateway's answer moves a call on from it.
SpecConfirmLive ==
  /\ Init
  /\ [][NextConfirm]_vars
  /\ WF_vars(\E c \in ConfirmCalls : ConfirmAccount(c))
  /\ WF_vars(NextInsert)

\* The server of part_000 after one create-order call has answered success:
\* the gateway holds the order O1 with the call's aid, type and amount, and
\* the payer may approve it.
InitBinding ==
  /\ build = "part_000"
  /\ MTA_TOKEN \in TokenConfigs
  /\ users = [a \in Accounts |-> [coins |-> 0, money |-> 0]]
  /\ donations = <<>>
  /\ \E aid \in Accounts, type \in Types, amount \in CreateAmounts :
       /\ CreateChecks(users, aid, type, amount) = "order"
       /\ gateway = <<[id |-> "O1", aid |-> aid, type |-> type, amount |-> amount]>>
       /\ create = [k \in CreateCalls |->
                      IF k = 1
                        THEN [IdleCreate EXCEPT
                                !.pc = "done", !.aid = aid, !.type = type,
                                !.amount = amount,
                                !.rewards = calculateRewards(type, amount),
                                !.orderId = "O1", !.resp = CreateOk]
                        ELSE IdleCreate]
  /\ confirm = [c \in ConfirmCalls |-> IdleConfirm]
  /\ settle = [s \in SettleCalls |-> IdleSettle]
  /\ credited = [d \in 1..MaxConfirms |-> 0]

\* The confirm-payment calls that follow a created order.
SpecBinding == InitBinding /\ [][NextConfirm]_vars

\* ----------------------------------------------------------- the consumer
\* The consumer polls /api/mta/pending with its token and calls
\* /api/mta/mark-done on the first entry of the answer.  It works through
\* an answer entry by entry and one call at a time, so the entry it takes
\* next is the first entry of a fresh poll.
ConsumerSettle(s, token) ==
  /\ PendingResponse(token).donations # <<>>
  /\ SettleStart(s, token, Head(PendingResponse(token).donations))

\* The consumer has read the response of its call and is free to call
\* again.
ConsumerReads(s) ==
  /\ settle[s].pc = "done"
  /\ settle' = [settle EXCEPT ![s] = IdleSettle]
  /\ UNCHANGED <<build, MTA_TOKEN, create, gateway, users, donations, confirm,
                 credited>>

\* The steps of one consumer with a store that answers its statements.
NextConsumer ==
  \/ \E token \in Tokens : ConsumerSettle(1, token)
  \/ SettleCredit(1, TRUE)
  \/ SettleMark(1, TRUE)
  \/ ConsumerReads(1)

\* A table of 50 to MaxRows unprocessed donations, and one confirm call
\* per slot, each for a new order, past its capture: new donations can
\* arrive at any time.
InitConsumer ==
  /\ build \in Builds
  /\ MTA_TOKEN \in TokenConfigs
  /\ users = [a \in Accounts |-> [coins |-> 0, money |-> 0]]
  /\ \E n \in PendingLimit..MaxRows : donations = TableOf(n, {})
  /\ create = [k \in CreateCalls |-> IdleCreate]
  /\ gateway = <<>>
  /\ confirm = [c \in ConfirmCalls |->
                  [IdleConfirm EXCEPT !.pc = "insert", !.aid = 123456,
                     !.type = "coins", !.amount = 1000,
                     !.orderId = "N" \o ToString(c), !.capture = "COMPLETED"]]
  /\ settle = [s \in SettleCalls |-> IdleSettle]
  /\ credited = [d \in 1..(MaxRows + MaxConfirms) |-> 0]

\* The consumer is fair: it goes on polling and calling with a token that
\* passes the gate, and each of its calls runs to its response.
SpecConsumer ==
  /\ InitConsumer
  /\ [][NextConsumer \/ NextPending \/ NextInsert]_vars
  /\ WF_vars(\E token \in Tokens : ~TokenRejected(token) /\ ConsumerSettle(1, token))
  /\ WF_vars(SettleCredit(1, TRUE))
  /\ WF_vars(SettleMark(1, TRUE))
  /\ WF_vars(ConsumerReads(1))

\* ================================================================ claims
\* The rows of the table with a given order id.
RowsOfOrder(orderId) ==
  {i \in 1..Len(donations) : donations[i].order_id = orderId}

\* The mark-done calls that answered success for a donation id.
Successes(d) ==
  {s \in SettleCalls : settle[s].resp = SettleOk /\ settle[s].donationId = d}

\* C1: exactly-once credit under concurrency.  However the statements of
\* the mark-done calls on one donation interleave, the account is credited
\* from the donation at most once and at most one call answers success.
ExactlyOnceCredit ==
  \A d \in 1..Len(donations) :
    /\ credited[d] <= 1
    /\ Cardinality(Successes(d)) <= 1

\* C2: settlement is atomic.  In every state an account has been credited
\* from a donation if and only if the donation is marked processed.
CreditedIffProcessed ==
  \A d \in 1..Len(donations) : (credited[d] > 0) <=> donations[d].processed

\* C3: sequential idempotency of confirm.  Once a donation is recorded for
\* an order id there is exactly one row for it, every confirm request with
\* that order id that carries its required fields, whatever its aid, type
\* and amount, is answered DuplicateOrder, and the call that answers
\* DuplicateOrder writes nothing.
ConfirmIdempotent ==
  /\ [](\A orderId \in OrderIds :
          RowsOfOrder(orderId) # {} =>
            /\ Cardinality(RowsOfOrder(orderId)) = 1
            /\ \A aid \in Aids, type \in Types, amount \in Amounts :
                 ~(aid = 0 \/ amount = 0) =>
                   ConfirmChecks(donations, users, aid, type, amount, orderId)
                     = DuplicateOrder)
  /\ [][\A c \in ConfirmCalls :
          (confirm[c].resp # DuplicateOrder /\ confirm'[c].resp = DuplicateOrder)
            => (confirm[c].pc = "idle" /\ confirm'[c].pc = "done"
                /\ donations' = donations /\ users' = users)]_vars

\* C3 witness: a confirm call was answered DuplicateOrder.
DuplicateAnswered ==
  \E c \in ConfirmCalls : confirm[c].resp = DuplicateOrder

\* C4: uniqueness under racing confirmations.  No state holds two rows
\* with the same order id.
UniqueOrderIds ==
  \A i, j \in 1..Len(donations) :
    i # j => donations[i].order_id # donations[j].order_id

\* C4 witness: a call has passed the existence check and the capture and is
\* about to insert, while another call's row for the same order id is
\* already committed.
InsertRacesCommit ==
  \E c \in ConfirmCalls :
    confirm[c].pc = "insert" /\ RowsOfOrder(confirm[c].orderId) # {}

\* C5: in every step every row stays in the table and a row that is
\* processed stays processed: the flag goes from false to true at most
\* once and never back.
ProcessedNeverReverts ==
  [][\A i \in 1..Len(donations) :
       /\ i <= Len(donations')
       /\ donations[i].processed => donations'[i].processed]_vars

\* C5 witness: a mark-done call is about to run its UPDATE donations on a
\* row another call has already marked processed.
MarkOnProcessedRow ==
  \E s \in SettleCalls :
    settle[s].pc = "mark" /\ donations[settle[s].donationId].processed

\* C6: balances never decrease.  Every recorded reward is >= 0, and so is
\* every balance (the balances start at 0).
RewardsNonNegative ==
  /\ \A i \in 1..Len(donations) :
       donations[i].coins_reward >= 0 /\ donations[i].money_reward >= 0
  /\ \A a \in Accounts : users[a].coins >= 0 /\ users[a].money >= 0

\* C7: a row is written only by a call whose capture reported COMPLETED,
\* for that call's order id; a capture that reports another status ends
\* the call with PaymentNotCompleted, a capture that throws ends it with
\* the handler's error, and in both cases the call writes nothing.
DonationOnlyAfterCompletedCapture ==
  /\ [](\A c \in ConfirmCalls :
          /\ confirm[c].pc = "insert" => confirm[c].capture = "COMPLETED"
          /\ confirm[c].resp = ConfirmOk => confirm[c].capture = "COMPLETED")
  /\ [][/\ Len(donations') # Len(donations) =>
             \E c \in ConfirmCalls :
               /\ confirm[c].pc = "insert"
               /\ confirm[c].capture = "COMPLETED"
               /\ confirm'[c].resp = ConfirmOk
               /\ Len(donations') = Len(donations) + 1
               /\ SubSeq(donations', 1, Len(donations)) = donations
               /\ donations'[Len(donations')].order_id = confirm[c].orderId
        /\ \A c \in ConfirmCalls :
             (confirm[c].pc = "capture" /\ confirm'[c].capture = "PENDING") =>
               /\ confirm'[c].pc = "done"
               /\ confirm'[c].resp = PaymentNotCompleted
               /\ donations' = donations
        /\ \A c \in ConfirmCalls :
             (confirm[c].pc = "capture" /\ confirm'[c].capture = "throws") =>
               /\ confirm'[c].pc = "done"
               /\ confirm'[c].resp = ConfirmFailed
               /\ donations' = donations]_vars

\* C7 witness: one call ended on a capture that was not completed, one on
\* a capture that threw, and nothing was written.
CaptureFailuresAnswered ==
  \E c1, c2 \in ConfirmCalls :
    /\ confirm[c1].capture = "PENDING" /\ confirm[c1].resp = PaymentNotCompleted
    /\ confirm[c2].capture = "throws" /\ confirm[c2].resp = ConfirmFailed
    /\ donations = <<>>

\* C8: a confirm request that carries its required fields, names an order
\* id with no recorded donation and an aid that is not in the users table
\* is answered AccountNotFound; the call that answers AccountNotFound
\* leaves the table, and with it the pending list, as it was; and no row
\* ever names an aid that is not in the users table.
UnknownAccountRejected ==
  /\ [](/\ \A aid \in Aids \ Accounts, type \in Types,
              amount \in Amounts, orderId \in OrderIds :
             (aid # 0 /\ amount # 0 /\ RowsOfOrder(orderId) = {}) =>
               ConfirmChecks(donations, users, aid, type, amount, orderId)
                 = AccountNotFound
        /\ \A i \in 1..Len(donations) : donations[i].aid \in Accounts)
  /\ [][\A c \in ConfirmCalls :
          (confirm[c].resp # AccountNotFound /\ confirm'[c].resp = AccountNotFound)
            => /\ confirm'[c].pc = "done"
               /\ donations' = donations
               /\ SelectPending(donations') = SelectPending(donations)]_vars

\* C8 witness: a confirm call was answered AccountNotFound.
UnknownAccountAnswered ==
  \E c \in ConfirmCalls : confirm[c].resp = AccountNotFound

\* C9: the token gate.  A pending or mark-done request whose token is
\* absent or differs from the configured token is answered Unauthorized,
\* with no rows, whatever the request token and the configured token are.
TokenGate ==
  \A token \in Tokens :
    (token = Undefined \/ token # MTA_TOKEN) =>
      /\ PendingResponse(token) = [status |-> Unauthorized, donations |-> <<>>]
      /\ \A donationId \in DonationIds :
           SettleChecks(donations, token, donationId) = Unauthorized

\* C10: the UPDATE users of a mark-done call adds exactly the row's
\* coins_reward and money_reward to the balances of the row's account and
\* changes no other account and no row; the UPDATE donations of a call
\* that answers success sets the row's processed flag and changes no other
\* row and no account.
SettleEffect ==
  [][\A s \in SettleCalls :
       LET id == settle[s].donationId
       IN  /\ (settle[s].pc = "credit" /\ settle'[s].pc = "mark") =>
                /\ users' =
                     [users EXCEPT
                        ![donations[id].aid] =
                           [coins |-> @.coins + donations[id].coins_reward,
                            money |-> @.money + donations[id].money_reward]]
                /\ donations' = donations
           /\ (settle[s].pc = "mark" /\ settle'[s].resp = SettleOk) =>
                /\ donations' = [donations EXCEPT ![id].processed = TRUE]
                /\ users' = users]_vars

\* C10 witness: a mark-done call answered success on a table of two rows,
\* and the row it settled is processed.
SettledOneOfTwo ==
  \E s \in SettleCalls :
    /\ settle[s].resp = SettleOk
    /\ Len(donations) = 2
    /\ donations[settle[s].donationId].processed
    /\ \E i \in 1..2 : ~donations[i].processed

\* C11: a mark-done request that passes the token gate and carries a
\* donationId is answered NotFound when the id names a row that is already
\* processed or names no row, and the call that answers NotFound changes
\* no balance and no row.
SettleNotFoundNoOp ==
  /\ [](\A token \in Tokens, d \in DonationIds \ {0} :
          (/\ ~TokenRejected(token)
           /\ IF d \in 1..Len(donations) THEN donations[d].processed ELSE TRUE)
            => SettleChecks(donations, token, d) = NotFound)
  /\ [][\A s \in SettleCalls :
          (settle[s].resp # NotFound /\ settle'[s].resp = NotFound)
            => /\ settle[s].pc = "idle" /\ settle'[s].pc = "done"
               /\ users' = users
               /\ donations' = donations
               /\ credited' = credited]_vars

\* C11 witness: a mark-done call was answered NotFound on the id of a row
\* that an earlier call had settled.
SettledIdAnsweredNotFound ==
  \E s \in SettleCalls :
    /\ settle[s].resp = NotFound
    /\ settle[s].donationId \in 1..Len(donations)
    /\ donations[settle[s].donationId].processed

\* C12: a pending request that passes the token gate is answered with
\* unprocessed rows only, at most 50 of them, in ascending creation order,
\* and with every unprocessed row created strictly earlier than a returned
\* row returned before it.
PendingOldestFirst ==
  \A token \in Tokens :
    ~TokenRejected(token) =>
      LET out == PendingResponse(token).donations
      IN  /\ Len(out) <= 50
          /\ \A k \in 1..Len(out) :
               /\ out[k] \in 1..Len(donations)
               /\ ~donations[out[k]].processed
               /\ \A l \in 1..Len(out) :
                    k < l => created_at(out[k]) < created_at(out[l])
               /\ \A j \in 1..Len(donations) :
                    (~donations[j].processed /\ created_at(j) < created_at(out[k]))
                      => \E m \in 1..(k - 1) : out[m] = j

\* C12 witness: more than 50 rows are unprocessed, a processed row lies
\* among the oldest, and a request token passes the gate: the answer is
\* cut at the LIMIT and skips the processed row.
PendingCutAtLimit ==
  /\ \E token \in Tokens : ~TokenRejected(token)
  /\ Len(SelectSeq(donations, LAMBDA r : ~r.processed)) > 50
  /\ \E i \in 1..50 : donations[i].processed
  /\ Len(SelectPending(donations)) = 50

\* C13: every recorded row has exactly one of coins_reward and
\* money_reward nonzero, and the nonzero one is the reward of the row's
\* type.
ExactlyOneRewardNonzero ==
  \A i \in 1..Len(donations) :
    /\ donations[i].type = "coins" =>
         (donations[i].coins_reward # 0 /\ donations[i].money_reward = 0)
    /\ donations[i].type = "money" =>
         (donations[i].money_reward # 0 /\ donations[i].coins_reward = 0)
    /\ donations[i].type \in {"coins", "money"}

\* C14: calculateRewards is a function of the type, the amount and the
\* fixed rates.  For type coins the recorded coins_reward is the floor of
\* amount * COIN_RATE and money_reward is 0; for type money money_reward is
\* the floor of amount * MONEY_RATE and coins_reward is 0; the reward never
\* exceeds the decimal product of amount and rate; any other type throws,
\* and the call fails without a row.  Two rows of the same type and amount
\* carry the same rewards.
RewardIsFloor ==
  /\ [](\A i, j \in 1..Len(donations) :
          (donations[i].type = donations[j].type
             /\ donations[i].amount_gel = donations[j].amount_gel)
            => /\ donations[i].coins_reward = donations[j].coins_reward
               /\ donations[i].money_reward = donations[j].money_reward)
  /\ [][\A c \in ConfirmCalls :
          (confirm[c].pc = "insert" /\ confirm'[c].pc = "done") =>
            LET type == confirm[c].type
                amount == confirm[c].amount
                row == donations'[Len(donations')]
            IN  /\ confirm'[c].resp = ConfirmOk =>
                     /\ Len(donations') = Len(donations) + 1
                     /\ type \in {"coins", "money"}
                     /\ type = "coins" =>
                          /\ 100 * row.coins_reward <= Times(amount, COIN_RATE)
                          /\ Times(amount, COIN_RATE) < 100 * (row.coins_reward + 1)
                          /\ 100 * row.coins_reward <= amount * COIN_RATE
                          /\ row.money_reward = 0
                     /\ type = "money" =>
                          /\ 100 * row.money_reward <= Times(amount, MONEY_RATE)
                          /\ Times(amount, MONEY_RATE) < 100 * (row.money_reward + 1)
                          /\ 100 * row.money_reward <= amount * MONEY_RATE
                          /\ row.coins_reward = 0
                /\ type \notin {"coins", "money"} =>
                     /\ confirm'[c].resp = ConfirmFailed
                     /\ donations' = donations]_vars

\* C14 witness: two rows of 0.50 coins or of 2.01 money were recorded, the
\* amounts where the floor drops a fraction.
FractionDropped ==
  /\ Len(donations) = 2
  /\ \/ donations[1].type = "coins" /\ donations[1].amount_gel = 50
     \/ donations[1].type = "money" /\ donations[1].amount_gel = 201
  /\ donations[2].amount_gel = donations[1].amount_gel

\* C15: a create-order request that carries its required fields is turned
\* away with InvalidType for a type other than coins and money, with
\* AmountOutOfRange for an amount below 1.00 or above 1000.00, and with
\* AccountNotFound for an aid that is not in the users table; the three
\* errors differ; 1.00 and 1000.00 pass the range check, 0.99 and 1000.01
\* do not; and the call that answers one of them has not called the
\* gateway and writes nothing.
CreateRejections ==
  /\ [](/\ Cardinality({InvalidType, AmountOutOfRange, AccountNotFound}) = 3
        /\ \A aid \in Aids \ {0}, type \in Types, amount \in CreateAmounts \ {0} :
             LET r == CreateChecks(users, aid, type, amount)
                 known == type \in {"coins", "money"}
                 inside == 100 <= amount /\ amount <= 100000
             IN  /\ ~known => r = InvalidType
                 /\ (known /\ ~inside) => r = AmountOutOfRange
                 /\ (known /\ inside /\ aid \notin Accounts) => r = AccountNotFound
                 /\ (known /\ amount \in {100, 100000} /\ aid \in Accounts)
                      => r = "order"
                 /\ (known /\ amount \in {99, 100001}) => r = AmountOutOfRange)
  /\ [][\A k \in CreateCalls :
          (/\ create[k].resp = NoResponse
           /\ create'[k].resp \in {InvalidType, AmountOutOfRange, AccountNotFound})
            => /\ create[k].pc = "idle"
               /\ gateway' = gateway
               /\ donations' = donations]_vars

\* C15 witness: three create-order calls were turned away, one with each
\* error, and the gateway has no order.
EachRejectionAnswered ==
  /\ \E k \in CreateCalls : create[k].resp = InvalidType
  /\ \E k \in CreateCalls : create[k].resp = AmountOutOfRange
  /\ \E k \in CreateCalls : create[k].resp = AccountNotFound
  /\ gateway = <<>>

\* C16: every create-order call that passed its checks and has answered,
\* unless the store or the gateway threw, answered success with the id of
\* the one gateway order created for it, which carries the call's aid, type
\* and amount, and with the rewards of calculateRewards; the gateway holds
\* one order per success; no donation is written.
CreateIntentSucceeds ==
  /\ \A k \in CreateCalls :
       (create[k].pc = "done" /\ create[k].aid # 0) =>
         /\ create[k].resp = CreateOk
         /\ create[k].rewards = calculateRewards(create[k].type, create[k].amount)
         /\ Cardinality({i \in 1..Len(gateway) : gateway[i].id = create[k].orderId}) = 1
         /\ \A i \in 1..Len(gateway) :
              gateway[i].id = create[k].orderId =>
                /\ gateway[i].aid = create[k].aid
                /\ gateway[i].type = create[k].type
                /\ gateway[i].amount = create[k].amount
  /\ Len(gateway) = Cardinality({k \in CreateCalls : create[k].resp = CreateOk})
  /\ donations = <<>>

\* C17: every confirm call that waits for the gateway's capture eventually
\* answers.
ConfirmCompletes ==
  \A c \in ConfirmCalls : (confirm[c].pc = "capture") ~> (confirm[c].pc = "done")

\* C18: a confirm call whose capture completed and whose INSERT or commit
\* then fails answers the handler's error and leaves the table and the
\* balances as they were; a call that answers success has added exactly
\* its row.
StoreFailureRecordsNothing ==
  [][\A c \in ConfirmCalls :
       (confirm[c].pc = "insert" /\ confirm'[c].pc = "done") =>
         /\ confirm[c].capture = "COMPLETED"
         /\ confirm'[c].resp \in {ConfirmFailed, ConfirmOk}
         /\ confirm'[c].resp = ConfirmFailed =>
              (donations' = donations /\ users' = users)
         /\ confirm'[c].resp = ConfirmOk =>
              /\ Len(donations') = Len(donations) + 1
              /\ donations'[Len(donations')].order_id = confirm[c].orderId]_vars

\* C18 witness: a call whose capture completed has answered the handler's
\* error, and the table is empty.
CapturedNotRecorded ==
  /\ \E c \in ConfirmCalls :
       confirm[c].capture = "COMPLETED" /\ confirm[c].resp = ConfirmFailed
  /\ donations = <<>>

\* C19: the capture request is sent only by a call that has passed the
\* duplicate check and the account check, and never for an order id that
\* has a recorded donation when the request is sent.
NoRecapture ==
  [][\A c \in ConfirmCalls :
       (confirm[c].pc # "capture" /\ confirm'[c].pc = "capture") =>
         /\ confirm[c].pc = "account"
         /\ ~AccountMissing(users, confirm[c].aid)
         /\ RowsOfOrder(confirm[c].orderId) = {}]_vars

\* The sum of a reward over the processed rows of an account.
RECURSIVE SettledSum(_, _, _)
SettledSum(n, aid, kind) ==
  IF n = 0 THEN 0
  ELSE SettledSum(n - 1, aid, kind)
         + (IF donations[n].processed /\ donations[n].aid = aid
              THEN (IF kind = "coins" THEN donations[n].coins_reward
                                      ELSE donations[n].money_reward)
              ELSE 0)

\* C20: conservation.  With no mark-done call in flight, each balance of
\* each account is its initial balance, 0, plus the sum of that reward over
\* the account's processed donations; and a processed donation has been
\* credited.
Conservation ==
  /\ (\A s \in SettleCalls : settle[s].pc \in {"idle", "done"}) =>
       \A a \in Accounts :
         /\ users[a].coins = SettledSum(Len(donations), a, "coins")
         /\ users[a].money = SettledSum(Len(donations), a, "money")
  /\ \A d \in 1..Len(donations) : donations[d].processed => credited[d] > 0

\* C21: order binding.  The aid, type and amount of a recorded donation,
\* and its rewards, are the ones the gateway order of its order id was
\* created with.
OrderBinding ==
  \A i \in 1..Len(donations), g \in 1..Len(gateway) :
    gateway[g].id = donations[i].order_id =>
      /\ donations[i].aid = gateway[g].aid
      /\ donations[i].type = gateway[g].type
      /\ donations[i].amount_gel = gateway[g].amount
      /\ donations[i].coins_reward
           = calculateRewards(gateway[g].type, gateway[g].amount).coins
      /\ donations[i].money_reward
           = calculateRewards(gateway[g].type, gateway[g].amount).money

====
